---- MODULE Spec2Model ----
(***************************************************************************)
(* Model of the multi-LLM system: the provider capabilities                *)
(* (src/src/providers/*.py), the dispatcher MultiLLMRouter                *)
(* (src/src/router.py), the evaluator ResponseEvaluator                    *)
(* (src/src/evaluator.py) and the composition point initialize_router      *)
(* (src/app.py).                                                           *)
(*                                                                         *)
(* Conventions.  A Python string is a sequence of text pieces: "" is <<>>, *)
(* a literal is a one-piece sequence and an f-string is the concatenation  *)
(* of its pieces.  An Optional value is None (<<>>) or Some(x) (<<x>>).    *)
(***************************************************************************)
EXTENDS Integers, Sequences, FiniteSets, TLC

(***************************************************************************)
(* Bounds of the model.                                                    *)
(***************************************************************************)
MaxProviders == 3
MaxElapsed == 1
MaxText == 3
MaxOutcomes == 2

(***************************************************************************)
(* Values.                                                                 *)
(***************************************************************************)
None == <<>>
Some(x) == <<x>>
Lit(s) == <<s>>
EmptyStr == <<>>

Range(s) == {s[i] : i \in 1..Len(s)}

TruthyNotNone(opt) == opt # None

Truthy(opt) == opt # None /\ opt[1] # EmptyStr

LLMResponse(model_name, content, latency, tokens_used, estimated_cost, error) ==
    [model_name |-> model_name, content |-> content, latency |-> latency,
     tokens_used |-> tokens_used, estimated_cost |-> estimated_cost,
     error |-> error]

success_by_truthiness(r) == ~Truthy(r.error)

success(r) == r.error = None

(***************************************************************************)
(* Results of a call: it returns a value or raises an exception.           *)
(***************************************************************************)
Return(v, c) == [tag |-> "return", value |-> v, client |-> c]
Raise(e, c) == [tag |-> "raise", exc |-> e, client |-> c]

(***************************************************************************)
(* The backend as seen by one generate call: whether the integration       *)
(* library imports and constructs, what the transport does, the status     *)
(* and body of the response, and the wall-clock time elapsed.              *)
(***************************************************************************)
LibStates == {"ok", "missing", "broken"}
NetStates == {"response", "connect", "timeout"}
Statuses == {200, 500}
Bodies == {"good", "not_json", "no_field"}
TokenCounts == {None, Some(7)}

Replies ==
    [lib : LibStates, net : NetStates, status : Statuses, body : Bodies,
     elapsed : 1..MaxElapsed, tokens : TokenCounts]

Str(code) == IF code = 200 THEN "200" ELSE "500"

ExcText(reply) ==
    CASE reply.net = "connect" -> "connection refused"
      [] reply.net = "timeout" -> "timed out"
      [] reply.status # 200 -> "status error"
      [] reply.body = "not_json" -> "invalid json"
      [] OTHER -> "unexpected payload"

ReplyText == Lit("generated text")
Detail == " - detail"

(***************************************************************************)
(* Provider instances.  kind selects the class, api_key and model are the  *)
(* constructor's arguments, client is whether _client has been built.      *)
(***************************************************************************)
Kinds == {"huggingface", "gemini", "groq", "openrouter", "ollama"}

DefaultModel(kind) ==
    CASE kind = "huggingface" -> Lit("mistralai/Mistral-7B-Instruct-v0.1")
      [] kind = "gemini" -> Lit("gemini-pro")
      [] kind = "groq" -> Lit("llama3-8b-8192")
      [] kind = "openrouter" -> Lit("meta-llama/llama-3-8b-instruct:free")
      [] kind = "ollama" -> Lit("llama3")

Provider(kind, api_key) ==
    [kind |-> kind, api_key |-> IF kind = "ollama" THEN None ELSE api_key,
     model |-> DefaultModel(kind), client |-> FALSE]

get_model_name(p) ==
    IF p.kind = "ollama" THEN Lit("ollama/") \o p.model ELSE p.model

FailedUnnamed(model_name, latency, error) ==
    LLMResponse(Lit("unknown"), EmptyStr, latency, None, 0, Some(error))

Failed(model_name, latency, error) ==
    LLMResponse(model_name, EmptyStr, latency, None, 0, Some(error))

(* the exception text handed back as content *)
RequestFailedWithBody(model_name, reply) ==
    LLMResponse(model_name, Lit(ExcText(reply)), reply.elapsed, None, 0,
                Some(<<"Request failed: ", ExcText(reply)>>))

RequestFailed(model_name, reply) ==
    Failed(model_name, reply.elapsed, <<"Request failed: ", ExcText(reply)>>)

ApiError(reply) ==
    IF reply.body = "not_json" THEN <<"API error: ", Str(reply.status)>>
    ELSE <<"API error: ", Str(reply.status), Detail>>

Succeeded(model_name, content, reply, tokens_used) ==
    LLMResponse(model_name, content, reply.elapsed, tokens_used, 0, None)

(***************************************************************************)
(* HuggingFaceProvider.generate_async                                      *)
(***************************************************************************)
HuggingFace_generate_async(p, reply) ==
    IF ~Truthy(p.api_key)
    THEN Return(Failed(p.model, 0, Lit("HuggingFace API key not provided")),
                p.client)
    ELSE IF reply.net # "response"
    THEN Return(RequestFailed(p.model, reply), p.client)
    ELSE IF reply.status = 200
    THEN IF reply.body = "not_json"
         THEN Return(RequestFailed(p.model, reply), p.client)
         ELSE Return(Succeeded(p.model,
                               IF reply.body = "good" THEN ReplyText
                               ELSE EmptyStr,
                               reply, None), p.client)
    ELSE Return(Failed(p.model, reply.elapsed, ApiError(reply)), p.client)

(***************************************************************************)
(* OpenRouterProvider.generate_async                                       *)
(***************************************************************************)
OpenRouter_generate_async(p, reply) ==
    IF ~Truthy(p.api_key)
    THEN Return(Failed(p.model, 0, Lit("OpenRouter API key not provided")),
                p.client)
    ELSE IF reply.net # "response"
    THEN Return(RequestFailed(p.model, reply), p.client)
    ELSE IF reply.status = 200
    THEN IF reply.body = "good"
         THEN Return(Succeeded(p.model, ReplyText, reply, reply.tokens),
                     p.client)
         ELSE Return(RequestFailed(p.model, reply), p.client)
    ELSE Return(Failed(p.model, reply.elapsed, ApiError(reply)), p.client)

(***************************************************************************)
(* OllamaProvider.generate_async                                           *)
(***************************************************************************)
Ollama_generate_async(p, reply) ==
    LET name == Lit("ollama/") \o p.model IN
    IF reply.net = "connect"
    THEN Return(Failed(name, reply.elapsed,
           Lit("Cannot connect to Ollama. Is it running? Install from https://ollama.ai/")),
           p.client)
    ELSE IF reply.net # "response"
    THEN Return(RequestFailed(name, reply), p.client)
    ELSE IF reply.status = 200
    THEN IF reply.body = "not_json"
         THEN Return(RequestFailed(name, reply), p.client)
         ELSE Return(Succeeded(name,
                               IF reply.body = "good" THEN ReplyText
                               ELSE EmptyStr,
                               reply, None), p.client)
    ELSE Return(Failed(name, reply.elapsed,
                       <<"Ollama API error: ", Str(reply.status)>>), p.client)

(***************************************************************************)
(* GeminiProvider._get_client and GroqProvider._get_client: the client is  *)
(* built on first use and kept; a missing library (ImportError) leaves it  *)
(* None, any other failure of the import or the constructor is raised.     *)
(***************************************************************************)
ClientInitError == "client init failed"

Gemini_get_client(p, reply) ==
    IF p.client THEN Return(TRUE, TRUE)
    ELSE IF reply.lib = "missing" THEN Return(FALSE, FALSE)
    ELSE IF Truthy(p.api_key)
    THEN IF reply.lib = "broken" THEN Raise(ClientInitError, FALSE)
         ELSE Return(TRUE, TRUE)
    ELSE Return(FALSE, FALSE)

Groq_get_client(p, reply) ==
    IF ~p.client /\ Truthy(p.api_key)
    THEN IF reply.lib = "missing" THEN Return(FALSE, FALSE)
         ELSE IF reply.lib = "broken" THEN Raise(ClientInitError, FALSE)
         ELSE Return(TRUE, TRUE)
    ELSE Return(p.client, p.client)

(***************************************************************************)
(* GeminiProvider.generate_async                                           *)
(***************************************************************************)
Gemini_generate_async(p, reply) ==
    IF ~Truthy(p.api_key)
    THEN Return(Failed(p.model, 0, Lit("Gemini API key not provided")),
                p.client)
    ELSE LET c == Gemini_get_client(p, reply) IN
         IF c.tag = "raise" THEN c
         ELSE IF ~c.value
         THEN Return(Failed(p.model, 0,
                Lit("google-generativeai package not installed")), c.client)
         ELSE IF reply.net # "response" \/ reply.status # 200
                 \/ reply.body = "not_json"
         THEN Return(RequestFailed(p.model, reply), c.client)
         ELSE Return(Succeeded(p.model,
                               IF reply.body = "good" THEN ReplyText
                               ELSE Lit("<response object>"),
                               reply, None), c.client)

(***************************************************************************)
(* GroqProvider.generate_async                                             *)
(***************************************************************************)
Groq_generate_async(p, reply) ==
    IF ~Truthy(p.api_key)
    THEN Return(Failed(p.model, 0, Lit("Groq API key not provided")),
                p.client)
    ELSE LET c == Groq_get_client(p, reply) IN
         IF c.tag = "raise" THEN c
         ELSE IF ~c.value
         THEN Return(Failed(p.model, 0, Lit("groq package not installed")),
                     c.client)
         ELSE IF reply.net # "response" \/ reply.status # 200
                 \/ reply.body # "good"
         THEN Return(RequestFailed(p.model, reply), c.client)
         ELSE Return(Succeeded(p.model, ReplyText, reply, reply.tokens),
                     c.client)

(***************************************************************************)
(* What one generate_async call does outside the process, in order:        *)
(* "import" of the integration library and "construct" of its client (in   *)
(* _get_client, only while no client is cached), "request" to the backend. *)
(***************************************************************************)
get_client_calls(p, reply) ==
    IF p.client \/ (p.kind = "groq" /\ ~Truthy(p.api_key)) THEN <<>>
    ELSE IF reply.lib = "missing" \/ ~Truthy(p.api_key) THEN <<"import">>
    ELSE <<"import", "construct">>

backend_calls(p, reply) ==
    CASE p.kind = "ollama" -> <<"request">>
      [] p.kind \in {"huggingface", "openrouter"} ->
            IF ~Truthy(p.api_key) THEN <<>> ELSE <<"request">>
      [] p.kind \in {"gemini", "groq"} ->
            IF ~Truthy(p.api_key) THEN <<>>
            ELSE LET c == IF p.kind = "gemini" THEN Gemini_get_client(p, reply)
                          ELSE Groq_get_client(p, reply)
                 IN get_client_calls(p, reply)
                    \o (IF c.tag = "return" /\ c.value THEN <<"request">>
                        ELSE <<>>)

(***************************************************************************)
(* The keyword options of a generate call and what the request to the      *)
(* backend carries of them.  kwargs is the dict of the options passed;     *)
(* temperature is in thousandths (0.7 is 700).                             *)
(***************************************************************************)
OptionKeys == {"max_tokens", "temperature", "top_k"}

OptionValue(key) ==
    CASE key = "max_tokens" -> 64
      [] key = "temperature" -> 200
      [] key = "top_k" -> 5

Kwargs == {[k \in K |-> OptionValue(k)] : K \in SUBSET OptionKeys}

NoKwargs == [k \in {} |-> 0]

kwargs_get(kwargs, key, default) ==
    IF key \in DOMAIN kwargs THEN kwargs[key] ELSE default

(* the option fields of the payload or call arguments each class builds *)
request_options(p, kwargs) ==
    CASE p.kind = "huggingface" ->
            [max_new_tokens |-> kwargs_get(kwargs, "max_tokens", 512),
             temperature |-> kwargs_get(kwargs, "temperature", 700)]
      [] p.kind = "groq" ->
            [max_tokens |-> kwargs_get(kwargs, "max_tokens", 1024),
             temperature |-> kwargs_get(kwargs, "temperature", 700)]
      [] p.kind \in {"gemini", "openrouter", "ollama"} -> [k \in {} |-> 0]

(***************************************************************************)
(* BaseLLMProvider.generate_async, dispatched on the class of p.           *)
(***************************************************************************)
generate_async(p, reply) ==
    CASE p.kind = "huggingface" -> HuggingFace_generate_async(p, reply)
      [] p.kind = "gemini" -> Gemini_generate_async(p, reply)
      [] p.kind = "groq" -> Groq_generate_async(p, reply)
      [] p.kind = "openrouter" -> OpenRouter_generate_async(p, reply)
      [] p.kind = "ollama" -> Ollama_generate_async(p, reply)

(***************************************************************************)
(* The dispatcher, MultiLLMRouter.                                         *)
(*                                                                         *)
(* providers is the dict self.providers as the sequence of its items in    *)
(* insertion order.  pc is the position of the running operation: "idle"   *)
(* (none running), "qa_gather" (query_all_async suspended in               *)
(* asyncio.gather), "wf_await" (query_best_for_use_case_async suspended    *)
(* awaiting one provider).                                                 *)
(*                                                                         *)
(* subject, backend and generated belong to a direct call of one           *)
(* provider's generate: the provider object, the backend behaviour it met  *)
(* and what the call did.                                                  *)
(***************************************************************************)
VARIABLES providers, pc, provider_names, tasks, running, responses, produced,
          detached, use_case, stage, pos, iter_len, awaiting, attempts,
          args, ret,
          subject, backend, generated,
          environ, outcomes, text, report

vars == <<providers, pc, provider_names, tasks, running, responses, produced,
          detached, use_case, stage, pos, iter_len, awaiting, attempts,
          args, ret,
          subject, backend, generated,
          environ, outcomes, text, report>>

app_vars == <<environ>>
ev_vars == <<outcomes, text, report>>

gen_vars == <<subject, backend, generated>>

qa_vars == <<provider_names, tasks, running, responses, produced, detached>>
wf_vars == <<use_case, stage, pos, iter_len, awaiting, attempts>>

UseCases == {"healthcare", "accessibility", "general", "cost_sensitive"}

USE_CASE_PREFERENCES ==
    [healthcare |-> <<"gemini", "groq", "huggingface">>,
     accessibility |-> <<"groq", "gemini", "openrouter">>,
     general |-> <<"groq", "ollama", "gemini">>,
     cost_sensitive |-> <<"ollama", "groq", "openrouter">>]

Preferences(uc) ==
    IF uc \in DOMAIN USE_CASE_PREFERENCES THEN USE_CASE_PREFERENCES[uc]
    ELSE <<>>

(***************************************************************************)
(* dict operations on the sequence of items.                               *)
(***************************************************************************)
Keys(d) == [i \in 1..Len(d) |-> d[i].name]
KeySet(d) == {d[i].name : i \in 1..Len(d)}
IndexOf(d, name) == CHOOSE i \in 1..Len(d) : d[i].name = name
Get(d, name) ==
    IF name \in KeySet(d) THEN Some(d[IndexOf(d, name)].provider) ELSE None

SetItemKeepOld(d, name, provider) ==
    IF name \in KeySet(d) THEN d
    ELSE Append(d, [name |-> name, provider |-> provider])

SetItem(d, name, provider) ==
    IF name \in KeySet(d)
    THEN [d EXCEPT ![IndexOf(d, name)].provider = provider]
    ELSE Append(d, [name |-> name, provider |-> provider])

register_provider(d, name, provider) == SetItem(d, name, provider)

get_provider(d, name) == Get(d, name)

list_providers(d) == Keys(d)

(***************************************************************************)
(* The provider object bound to name keeps the client it has built.        *)
(***************************************************************************)
KeepClient(d, name, c) ==
    IF name \in KeySet(d)
    THEN [d EXCEPT ![IndexOf(d, name)].provider.client = c]
    ELSE d

(***************************************************************************)
(* The backend behaviours the dispatcher is run against: a good response,  *)
(* a refused connection, and an integration library whose client cannot    *)
(* be constructed.                                                         *)
(***************************************************************************)
DispatchReplies ==
    {r \in Replies : /\ r.lib \in {"ok", "broken"}
                     /\ r.net \in {"response", "connect"}
                     /\ r.status = 200
                     /\ r.elapsed = 1
                     /\ r.body = "good"
                     /\ r.tokens = None}

ApiKeys == {None, Some(Lit("sk-key"))}

Pending == [tag |-> "pending", value |-> None, exc |-> ""]
NoRet == [op |-> "none", tag |-> "none", value |-> None]
Returned(op, v) == [op |-> op, tag |-> "return", value |-> v]
Raised(op, e) == [op |-> op, tag |-> "raise", value |-> e]

NoAwait == [name |-> "", provider |-> None]

NoArgs == [op |-> "none", name |-> "", provider |-> None, before |-> None]

Remote == {"huggingface", "gemini", "groq", "openrouter"}
NoEnviron == [k \in Remote |-> None]

AppUnused == environ = NoEnviron

EvUnused ==
    /\ outcomes = <<>>
    /\ text = <<>>
    /\ report = None

OthersUnused == AppUnused /\ EvUnused

Init ==
    /\ providers = <<>>
    /\ pc = "idle"
    /\ provider_names = <<>>
    /\ tasks = <<>>
    /\ running = {}
    /\ responses = <<>>
    /\ produced = <<>>
    /\ detached = {}
    /\ use_case = "none"
    /\ stage = "none"
    /\ pos = 0
    /\ iter_len = 0
    /\ awaiting = NoAwait
    /\ attempts = <<>>
    /\ args = NoArgs
    /\ ret = NoRet
    /\ subject = None
    /\ backend = None
    /\ generated = None
    /\ OthersUnused

(***************************************************************************)
(* Every operation starts with fresh locals; the locals of the operation   *)
(* that ran last stay readable until the next one starts.                  *)
(***************************************************************************)
FreshQa ==
    /\ provider_names' = <<>>
    /\ tasks' = <<>>
    /\ running' = {}
    /\ responses' = <<>>
    /\ produced' = <<>>
    /\ detached' = {}

FreshWf ==
    /\ use_case' = "none"
    /\ stage' = "none"
    /\ pos' = 0
    /\ iter_len' = 0
    /\ awaiting' = NoAwait
    /\ attempts' = <<>>

(***************************************************************************)
(* register_provider(name, provider), between dispatches.                  *)
(***************************************************************************)
Register(name, api_key) ==
    /\ pc = "idle"
    /\ name \in KeySet(providers) \/ Len(providers) < MaxProviders
    /\ providers' = register_provider(providers, name, Provider(name, api_key))
    /\ args' = [op |-> "register_provider", name |-> name,
                provider |-> Some(Provider(name, api_key)),
                before |-> get_provider(providers, name)]
    /\ ret' = Returned("register_provider", None)
    /\ FreshQa /\ FreshWf
    /\ UNCHANGED <<pc, gen_vars, app_vars, ev_vars>>

(***************************************************************************)
(* get_use_case_explanation(use_case), between dispatches: a lookup in a   *)
(* dict literal built by the call.  d is the dispatcher (self).            *)
(***************************************************************************)
explanations ==
    [healthcare |-> Lit("For healthcare queries, we prioritize accurate and reliable models like Gemini and Groq that can provide detailed medical information."),
     accessibility |-> Lit("For accessibility needs, we use fast models like Groq and Gemini that provide clear, easy-to-understand responses quickly."),
     general |-> Lit("For general queries, we balance speed and quality using Groq and Ollama for fast, helpful responses."),
     cost_sensitive |-> Lit("For cost-sensitive users, we prioritize free local models like Ollama and free tier services.")]

explanation_by_providers(d, uc) ==
    (IF uc \in DOMAIN explanations THEN explanations[uc]
     ELSE Lit("General purpose AI assistance."))
        \o <<" Available: ">> \o Keys(d)

get_use_case_explanation(d, uc) ==
    IF uc \in DOMAIN explanations THEN explanations[uc]
    ELSE Lit("General purpose AI assistance.")

Explain(uc) ==
    /\ pc = "idle"
    /\ args' = [op |-> "get_use_case_explanation", name |-> uc,
                provider |-> None, before |-> None]
    /\ ret' = Returned("get_use_case_explanation",
                       Some(get_use_case_explanation(providers, uc)))
    /\ FreshQa /\ FreshWf
    /\ UNCHANGED <<providers, pc, gen_vars, app_vars, ev_vars>>

(***************************************************************************)
(* query_all_async.                                                        *)
(*                                                                         *)
(* asyncio.gather with return_exceptions=True: every awaitable runs as     *)
(* its own task, the result (or the exception) of the i-th awaitable goes  *)
(* into the i-th slot of the list, and the await finishes when no task is  *)
(* running any more.                                                       *)
(***************************************************************************)
(* results collected in completion order, as asyncio.as_completed does *)
gather_slot_completion(i, filled) == Cardinality(filled) + 1

gather_slot(i, filled) == i

(* a race: the await ends with the first task that finishes *)
gather_first_done(run, n) == n = 0 \/ Cardinality(run) < n

gather_done(run, n) == run = {}

(* the exception reported without its provider's name and prefix *)
ExceptionResponseAnonymous(name, exc) ==
    LLMResponse(Lit("none"), EmptyStr, 0, None, 0, Some(Lit(exc)))

ExceptionResponse(name, exc) ==
    LLMResponse(Lit(name), EmptyStr, 0, None, 0,
                Some(<<"Exception: ", exc>>))

(* the body of "for name, response in zip(provider_names, responses)" *)
ResultEntry(name, response) ==
    IF response.tag = "raise" THEN ExceptionResponse(name, response.exc)
    ELSE IF response.tag = "return" THEN response.value[1]
    ELSE Pending

ZipLen(names, resps) == IF Len(names) < Len(resps) THEN Len(names) ELSE Len(resps)

(* a loop that drops the tasks that raised *)
RECURSIVE BuildResultsSkipRaised(_, _, _)
BuildResultsSkipRaised(names, resps, n) ==
    IF n = 0 THEN <<>>
    ELSE LET before == BuildResultsSkipRaised(names, resps, n - 1)
         IN IF resps[n].tag = "raise" THEN before
            ELSE Append(before, [name |-> names[n],
                                 response |-> ResultEntry(names[n], resps[n])])

RECURSIVE BuildResults(_, _, _)
BuildResults(names, resps, n) ==
    IF n = 0 THEN <<>>
    ELSE LET before == BuildResults(names, resps, n - 1)
             entry == [name |-> names[n],
                       response |-> ResultEntry(names[n], resps[n])]
         IN IF names[n] \in KeySet(before)
            THEN [before EXCEPT ![IndexOf(before, names[n])] = entry]
            ELSE Append(before, entry)

(* a coroutine that looks its provider up in self.providers when it runs *)
looked_up_provider(task, d, name) ==
    IF name \in KeySet(d) THEN Get(d, name)[1] ELSE task

(* provider.generate_async(prompt) is called inside the loop over the     *)
(* items: the coroutine belongs to the object the mapping held then.      *)
bound_provider(task, d, name) == task

QaStart ==
    /\ pc = "idle"
    /\ provider_names' = Keys(providers)
    /\ tasks' = [i \in 1..Len(providers) |-> providers[i].provider]
    /\ running' = 1..Len(providers)
    /\ responses' = [i \in 1..Len(providers) |-> Pending]
    /\ produced' = [i \in 1..Len(providers) |-> Pending]
    /\ detached' = {}
    /\ pc' = "qa_gather"
    /\ ret' = NoRet
    /\ FreshWf
    /\ args' = NoArgs
    /\ UNCHANGED <<providers, gen_vars, app_vars, ev_vars>>

QaComplete(i, reply) ==
    /\ pc = "qa_gather"
    /\ i \in running
    /\ LET r == generate_async(bound_provider(tasks[i], providers,
                                                   provider_names[i]), reply)
           filled == {j \in 1..Len(responses) : responses[j] # Pending}
       IN /\ running' = running \ {i}
          /\ responses' = [responses EXCEPT ![gather_slot(i, filled)] =
                              [tag |-> r.tag,
                               value |-> IF r.tag = "return" THEN Some(r.value) ELSE None,
                               exc |-> IF r.tag = "raise" THEN r.exc ELSE ""]]
          /\ produced' = [produced EXCEPT ![i] = r]
          /\ providers' = IF provider_names[i] \in detached THEN providers
                          ELSE KeepClient(providers, provider_names[i], r.client)
    /\ UNCHANGED <<pc, provider_names, tasks, detached, args, ret, wf_vars,
                   gen_vars, app_vars, ev_vars>>

QaReturn ==
    /\ pc = "qa_gather"
    /\ gather_done(running, Len(tasks))
    /\ ret' = Returned("query_all",
                       BuildResults(provider_names, responses,
                                    ZipLen(provider_names, responses)))
    /\ pc' = "idle"
    /\ UNCHANGED <<providers, args, qa_vars, wf_vars, gen_vars, app_vars,
                   ev_vars>>

(***************************************************************************)
(* query_best_for_use_case_async.                                          *)
(*                                                                         *)
(* stage and pos say which loop is running and the index of the item it    *)
(* is at: an index into preferences in the first loop ("pref"), an index   *)
(* into the items of self.providers in the second ("fallback").            *)
(***************************************************************************)
Min(S) == CHOOSE x \in S : \A y \in S : x <= y

NoneResponse ==
    LLMResponse(Lit("none"), EmptyStr, 0, None, 0,
                Some(Lit("No providers available or all providers failed")))

(* a first loop that gives up after the first preference *)
PrefItemsFirstOnly(d, preferences, p) ==
    {j \in (p + 1)..Len(preferences) : Get(d, preferences[j]) # None /\ j = 1}

(* the items the first loop invokes after position p *)
PrefItems(d, preferences, p) ==
    {j \in (p + 1)..Len(preferences) : Get(d, preferences[j]) # None}

(* the items the second loop invokes after position p *)
FallbackItems(d, preferences, p) ==
    {j \in (p + 1)..Len(d) : d[j].name \notin Range(preferences)}

DictChanged == "dictionary changed size during iteration"

(* run from (st, p) to the next await, or to the end of both loops.  n is  *)
(* the length self.providers had when the second loop's iterator was made: *)
(* the iterator raises RuntimeError when asked for its next item, the end  *)
(* included, once the dict has another length.                             *)
Advance(d, preferences, st, p, n) ==
    IF st = "pref" /\ PrefItems(d, preferences, p) # {}
    THEN LET j == Min(PrefItems(d, preferences, p))
         IN [stage |-> "pref", pos |-> j, name |-> preferences[j], len |-> 0]
    ELSE IF st = "fallback" /\ Len(d) # n
    THEN [stage |-> "fault", pos |-> p, name |-> "", len |-> n]
    ELSE LET q == IF st = "pref" THEN 0 ELSE p
             m == IF st = "pref" THEN Len(d) ELSE n
         IN IF FallbackItems(d, preferences, q) # {}
            THEN LET j == Min(FallbackItems(d, preferences, q))
                 IN [stage |-> "fallback", pos |-> j, name |-> d[j].name,
                     len |-> m]
            ELSE [stage |-> "end", pos |-> 0, name |-> "", len |-> 0]

(* a waterfall that keeps going after a success *)
WfAfterNeverStops(response) == "continue"

(* "if response.success: return response" *)
WfAfter(response) == IF success(response) THEN "return" ELSE "continue"

WfGo(d, uc, st, p, n) ==
    LET nxt == Advance(d, Preferences(uc), st, p, n)
    IN IF nxt.stage = "end"
       THEN /\ ret' = Returned("query_best_for_use_case", NoneResponse)
            /\ pc' = "idle"
            /\ stage' = "end"
            /\ pos' = 0
            /\ iter_len' = 0
            /\ awaiting' = NoAwait
       ELSE IF nxt.stage = "fault"
       THEN /\ ret' = Raised("query_best_for_use_case", DictChanged)
            /\ pc' = "idle"
            /\ stage' = "fault"
            /\ pos' = nxt.pos
            /\ iter_len' = nxt.len
            /\ awaiting' = NoAwait
       ELSE /\ ret' = NoRet
            /\ pc' = "wf_await"
            /\ stage' = nxt.stage
            /\ pos' = nxt.pos
            /\ iter_len' = nxt.len
            /\ awaiting' = [name |-> nxt.name,
                            provider |-> Get(d, nxt.name)]

WfStart(uc) ==
    /\ pc = "idle"
    /\ use_case' = uc
    /\ attempts' = <<>>
    /\ WfGo(providers, uc, "pref", 0, 0)
    /\ FreshQa
    /\ args' = NoArgs
    /\ UNCHANGED <<providers, gen_vars, app_vars, ev_vars>>

WfResume(reply) ==
    /\ pc = "wf_await"
    /\ LET r == generate_async(awaiting.provider[1], reply)
       IN /\ attempts' = Append(attempts,
                [name |-> awaiting.name, tag |-> r.tag,
                 value |-> IF r.tag = "return" THEN Some(r.value) ELSE None])
          /\ providers' = IF awaiting.name \in detached THEN providers
                          ELSE KeepClient(providers, awaiting.name, r.client)
          /\ IF r.tag = "raise"
             THEN /\ ret' = Raised("query_best_for_use_case", r.exc)
                  /\ pc' = "idle"
                  /\ awaiting' = NoAwait
                  /\ UNCHANGED <<stage, pos, iter_len>>
             ELSE IF WfAfter(r.value) = "return"
             THEN /\ ret' = Returned("query_best_for_use_case", r.value)
                  /\ pc' = "idle"
                  /\ awaiting' = NoAwait
                  /\ UNCHANGED <<stage, pos, iter_len>>
             ELSE WfGo(providers', use_case, stage, pos, iter_len)
    /\ detached' = {}
    /\ UNCHANGED <<use_case, args, provider_names, tasks, running, responses,
                   produced, gen_vars, app_vars, ev_vars>>

Next ==
    \/ \E name \in Kinds, api_key \in ApiKeys : Register(name, api_key)
    \/ QaStart
    \/ \E i \in 1..MaxProviders, reply \in DispatchReplies : QaComplete(i, reply)
    \/ QaReturn
    \/ \E uc \in UseCases : WfStart(uc)
    \/ \E reply \in DispatchReplies : WfResume(reply)
    \/ \E uc \in UseCases \cup {"other"} : Explain(uc)

Spec == Init /\ [][Next]_vars

(***************************************************************************)
(* Another task of the same event loop calls register_provider while a     *)
(* dispatch is suspended at an await: at asyncio.gather in query_all_async *)
(* or at a provider's generate_async in query_best_for_use_case_async.     *)
(* The call runs to its end before the dispatch resumes and touches        *)
(* self.providers only; the dispatch keeps its locals.  detached records   *)
(* the names whose object in flight is no longer the one in the mapping.   *)
(* One such call is run against each dispatch: args, which every dispatch  *)
(* clears when it starts, then says at its end whether one took place.     *)
(***************************************************************************)
InFlight ==
    IF pc = "wf_await" THEN {awaiting.name}
    ELSE IF pc = "qa_gather" THEN {provider_names[i] : i \in running}
    ELSE {}

RegisterDuring(name, api_key) ==
    /\ pc \in {"qa_gather", "wf_await"}
    /\ args = NoArgs
    /\ name \in KeySet(providers) \/ Len(providers) < MaxProviders
    /\ providers' = register_provider(providers, name, Provider(name, api_key))
    /\ args' = [op |-> "register_provider", name |-> name,
                provider |-> Some(Provider(name, api_key)),
                before |-> get_provider(providers, name)]
    /\ detached' = IF name \in InFlight THEN detached \cup {name}
                   ELSE detached
    /\ UNCHANGED <<pc, ret, provider_names, tasks, running, responses,
                   produced, wf_vars, gen_vars, app_vars, ev_vars>>

(* The names the interleavings are run with: every use case prefers some  *)
(* of them and leaves the others to its second loop.                       *)
ConcNames == {"groq", "huggingface", "openrouter"}

(* the mappings register_provider can have built before the dispatch *)
ConcItems ==
    {[name |-> name, provider |-> Provider(name, api_key)] :
        name \in ConcNames, api_key \in ApiKeys}

ConcMappings ==
    {d \in UNION {[1..n -> ConcItems] : n \in 0..MaxProviders} :
        \A i, j \in 1..Len(d) : d[i].name = d[j].name => i = j}

InitConc ==
    /\ providers \in ConcMappings
    /\ pc = "idle"
    /\ provider_names = <<>>
    /\ tasks = <<>>
    /\ running = {}
    /\ responses = <<>>
    /\ produced = <<>>
    /\ detached = {}
    /\ use_case = "none"
    /\ stage = "none"
    /\ pos = 0
    /\ iter_len = 0
    /\ awaiting = NoAwait
    /\ attempts = <<>>
    /\ args = NoArgs
    /\ ret = NoRet
    /\ subject = None
    /\ backend = None
    /\ generated = None
    /\ OthersUnused

NextConc ==
    \/ \E name \in ConcNames, api_key \in ApiKeys :
          RegisterDuring(name, api_key)
    \/ QaStart
    \/ \E i \in 1..MaxProviders, reply \in DispatchReplies : QaComplete(i, reply)
    \/ QaReturn
    \/ \E uc \in UseCases : WfStart(uc)
    \/ \E reply \in DispatchReplies : WfResume(reply)

SpecConc == InitConc /\ [][NextConc]_vars


(***************************************************************************)
(* A provider called on its own, BaseLLMProvider.generate: the provider    *)
(* is any instance its constructor can build, the backend any reply.       *)
(***************************************************************************)
Credentials == {None, Some(EmptyStr), Some(Lit("sk-key"))}

DispatcherUnused ==
    /\ providers = <<>>
    /\ pc = "idle"
    /\ provider_names = <<>>
    /\ tasks = <<>>
    /\ running = {}
    /\ responses = <<>>
    /\ produced = <<>>
    /\ detached = {}
    /\ use_case = "none"
    /\ stage = "none"
    /\ pos = 0
    /\ iter_len = 0
    /\ awaiting = NoAwait
    /\ attempts = <<>>
    /\ args = NoArgs
    /\ ret = NoRet

InitGen ==
    /\ DispatcherUnused
    /\ OthersUnused
    /\ \E kind \in Kinds, api_key \in Credentials :
          subject = Some(Provider(kind, api_key))
    /\ backend = None
    /\ generated = None

Generate(reply, kwargs) ==
    /\ subject # None
    /\ LET r == generate_async(subject[1], reply)
           calls == backend_calls(subject[1], reply)
       IN /\ generated' = Some(r)
          /\ backend' = Some([reply |-> reply, client |-> subject[1].client,
                               calls |-> calls, kwargs |-> kwargs,
                               request |->
                                   IF "request" \in Range(calls)
                                   THEN Some(request_options(subject[1], kwargs))
                                   ELSE None])
          /\ subject' = Some([subject[1] EXCEPT !.client = r.client])
    /\ UNCHANGED <<providers, pc, qa_vars, wf_vars, args, ret, app_vars,
                   ev_vars>>

NextGen == \E reply \in Replies : Generate(reply, NoKwargs)

SpecGen == InitGen /\ [][NextGen]_vars

(* the same call with keyword options *)
NextReq == \E reply \in DispatchReplies, kwargs \in Kwargs : Generate(reply, kwargs)

SpecReq == InitGen /\ [][NextReq]_vars

(***************************************************************************)
(* The dispatcher over one registered provider of any kind and credential, *)
(* met by any backend behaviour: every path of every generate_async runs   *)
(* under both dispatches.                                                  *)
(***************************************************************************)
InitOne ==
    /\ \E kind \in Kinds, api_key \in Credentials :
          providers = register_provider(<<>>, kind, Provider(kind, api_key))
    /\ pc = "idle"
    /\ provider_names = <<>>
    /\ tasks = <<>>
    /\ running = {}
    /\ responses = <<>>
    /\ produced = <<>>
    /\ detached = {}
    /\ use_case = "none"
    /\ stage = "none"
    /\ pos = 0
    /\ iter_len = 0
    /\ awaiting = NoAwait
    /\ attempts = <<>>
    /\ args = NoArgs
    /\ ret = NoRet
    /\ subject = None
    /\ backend = None
    /\ generated = None
    /\ OthersUnused

NextOne ==
    \/ QaStart
    \/ \E reply \in Replies : QaComplete(1, reply)
    \/ QaReturn
    \/ \E uc \in UseCases : WfStart(uc)
    \/ \E reply \in Replies : WfResume(reply)

SpecOne == InitOne /\ [][NextOne]_vars

(***************************************************************************)
(* The composition point, initialize_router in app.py: environ is the      *)
(* process environment (the four API key variables, unset or set to a      *)
(* string), the router built is the dispatcher's state afterwards and the  *)
(* list of display names is returned with it.                              *)
(***************************************************************************)
GenUnused ==
    /\ subject = None
    /\ backend = None
    /\ generated = None

DisplayName(name) ==
    CASE name = "huggingface" -> "HuggingFace"
      [] name = "gemini" -> "Gemini"
      [] name = "groq" -> "Groq"
      [] name = "openrouter" -> "OpenRouter"
      [] name = "ollama" -> "Ollama (local)"

register_always(r, name, key) ==
    [router |-> register_provider(r.router, name, Provider(name, key)),
     providers_registered |-> Append(r.providers_registered, DisplayName(name))]

register_if_key(r, name, key) ==
    IF Truthy(key)
    THEN [router |-> register_provider(r.router, name, Provider(name, key)),
          providers_registered |->
              Append(r.providers_registered, DisplayName(name))]
    ELSE r

initialize_router(env) ==
    LET r0 == [router |-> <<>>, providers_registered |-> <<>>]
        r1 == register_if_key(r0, "huggingface", env.huggingface)
        r2 == register_if_key(r1, "gemini", env.gemini)
        r3 == register_if_key(r2, "groq", env.groq)
        r4 == register_if_key(r3, "openrouter", env.openrouter)
    IN [router |-> register_provider(r4.router, "ollama",
                                     Provider("ollama", None)),
        providers_registered |->
            Append(r4.providers_registered, DisplayName("ollama"))]

InitApp ==
    /\ DispatcherUnused
    /\ GenUnused
    /\ EvUnused
    /\ environ \in [Remote -> Credentials]

Initialize ==
    /\ pc = "idle"
    /\ LET r == initialize_router(environ)
       IN /\ providers' = r.router
          /\ ret' = Returned("initialize_router", r.providers_registered)
    /\ args' = [op |-> "initialize_router", name |-> "", provider |-> None,
                before |-> None]
    /\ UNCHANGED <<pc, qa_vars, wf_vars, gen_vars, app_vars, ev_vars>>

NextApp == Initialize

SpecApp == InitApp /\ [][NextApp]_vars

(***************************************************************************)
(* ResponseEvaluator (src/src/evaluator.py).                               *)
(*                                                                         *)
(* A text handed to the evaluator is the sequence of its characters.       *)
(* Seconds and readability scores are fixed-point numbers in thousandths   *)
(* (1.004 s is 1004); round(x, 2) keeps a multiple of ten thousandths.     *)
(* The values used never lie half-way between two such multiples.          *)
(***************************************************************************)
Max(a, b) == IF a >= b THEN a ELSE b

Round2(x) == ((x + 5) \div 10) * 10

Whitespace == {" "}
Alphabet == {"a", " ", ".", "!", "?"}

ShortText == <<"S", "h", "o", "r", "t", ".", " ", "T", "e", "x", "t", ".">>

Texts == UNION {[1..n -> Alphabet] : n \in 0..MaxText} \cup {ShortText}

(* str.split() with no argument: the maximal runs of non-whitespace        *)
RECURSIVE SplitFrom(_, _, _, _)
SplitFrom(t, i, words, cur) ==
    IF i > Len(t)
    THEN IF cur = <<>> THEN words ELSE Append(words, cur)
    ELSE IF t[i] \in Whitespace
    THEN SplitFrom(t, i + 1,
                   IF cur = <<>> THEN words ELSE Append(words, cur), <<>>)
    ELSE SplitFrom(t, i + 1, words, Append(cur, t[i]))

split(t) == SplitFrom(t, 1, <<>>, <<>>)

count(t, ch) == Cardinality({i \in 1..Len(t) : t[i] = ch})

RECURSIVE SumLen(_, _)
SumLen(words, n) == IF n = 0 THEN 0 ELSE SumLen(words, n - 1) + Len(words[n])

(* what `import textstat` and the three textstat calls give for one text:  *)
(* None when the import raises ImportError, else the two scores and the    *)
(* sentence count                                                          *)
TextstatReplies ==
    {None} \cup {Some([ease |-> e, grade |-> 8123, sentences |-> 1]) :
                    e \in {59996, 60004, 90000}}

Interpretation(ease) ==
    IF ease >= 90000 THEN "Very Easy (5th grade)"
    ELSE IF ease >= 80000 THEN "Easy (6th grade)"
    ELSE IF ease >= 70000 THEN "Fairly Easy (7th grade)"
    ELSE IF ease >= 60000 THEN "Standard (8th-9th grade)"
    ELSE IF ease >= 50000 THEN "Fairly Difficult (10th-12th grade)"
    ELSE IF ease >= 30000 THEN "Difficult (College)"
    ELSE "Very Difficult (College graduate)"

BasicOnly == "Basic metrics only (install textstat for full analysis)"

sentences_unclamped(n) == n

sentences_clamped(n) == Max(1, n)

(* avg_word_length is the quotient num / den *)
calculate_readability(t, ts) ==
    IF ts # None
    THEN [flesch_reading_ease |-> Round2(ts[1].ease),
          flesch_kincaid_grade |-> Round2(ts[1].grade),
          interpretation |-> Interpretation(ts[1].ease),
          word_count |-> Len(split(t)),
          sentence_count |-> ts[1].sentences]
    ELSE LET words == split(t)
             sentences == count(t, ".") + count(t, "!") + count(t, "?")
         IN [word_count |-> Len(words),
             sentence_count |-> sentences_clamped(sentences),
             avg_word_length |-> [num |-> SumLen(words, Len(words)),
                                  den |-> Max(1, Len(words))],
             interpretation |-> BasicOnly]

Readability(ts) ==
    /\ report = None
    /\ report' = [op |-> "calculate_readability", env |-> <<ts>>,
                  result |-> calculate_readability(text, ts)]
    /\ UNCHANGED <<providers, pc, qa_vars, wf_vars, args, ret, gen_vars,
                   app_vars, outcomes, text>>

(***************************************************************************)
(* ResponseEvaluator.evaluate_response                                     *)
(***************************************************************************)
speed_rating(latency) ==
    IF latency < 1000 THEN "Very Fast"
    ELSE IF latency < 3000 THEN "Fast"
    ELSE IF latency < 5000 THEN "Moderate"
    ELSE IF latency < 10000 THEN "Slow"
    ELSE "Very Slow"

evaluate_response(response, ts) ==
    IF ~success(response)
    THEN [success |-> FALSE, error |-> response.error,
          model |-> response.model_name]
    ELSE [success |-> TRUE,
          model |-> response.model_name,
          latency |-> Round2(response.latency),
          speed_rating |-> speed_rating(response.latency),
          tokens_used |-> response.tokens_used,
          cost |-> response.estimated_cost,
          readability |-> calculate_readability(response.content, ts),
          response_length |-> Len(response.content)]

(***************************************************************************)
(* ResponseEvaluator.compare_responses.  responses and evaluations are     *)
(* dicts as sequences of items in insertion order; env[i] is what textstat *)
(* gives for the i-th response.                                            *)
(***************************************************************************)
(* min(items, key=latency): the first item no later item is strictly      *)
(* smaller than                                                            *)
RECURSIVE MinFrom(_, _, _)
MinFrom(items, i, best) ==
    IF i > Len(items) THEN best
    ELSE MinFrom(items, i + 1,
                 IF items[i].evaluation.latency < items[best].evaluation.latency
                 THEN i ELSE best)

(* the loop over successful.items(): most_readable and highest_readability *)
(* after the first i - 1 items are best (None at the start) and highest    *)
(* (unused while best is None, standing for -inf)                          *)
RECURSIVE MostReadableLast(_, _, _, _)
MostReadableLast(items, i, best, highest) ==
    IF i > Len(items) THEN best
    ELSE LET r == items[i].evaluation.readability
         IN IF "flesch_reading_ease" \in DOMAIN r
               /\ (best = None \/ r.flesch_reading_ease >= highest)
            THEN MostReadableLast(items, i + 1, Some(items[i].name),
                                  r.flesch_reading_ease)
            ELSE MostReadableLast(items, i + 1, best, highest)

RECURSIVE MostReadable(_, _, _, _)
MostReadable(items, i, best, highest) ==
    IF i > Len(items) THEN best
    ELSE LET r == items[i].evaluation.readability
         IN IF "flesch_reading_ease" \in DOMAIN r
               /\ (best = None \/ r.flesch_reading_ease > highest)
            THEN MostReadable(items, i + 1, Some(items[i].name),
                              r.flesch_reading_ease)
            ELSE MostReadable(items, i + 1, best, highest)

IsSuccessful(item) == item.evaluation.success

Evaluations(rs, env) ==
    [i \in 1..Len(rs) |->
        [name |-> rs[i].name,
         evaluation |-> evaluate_response(rs[i].response, env[i])]]

Successful(evaluations) == SelectSeq(evaluations, IsSuccessful)

compare_report(evaluations, successful, total) ==
    IF Len(successful) > 0
    THEN LET fastest == successful[MinFrom(successful, 2, 1)]
         IN [evaluations |-> evaluations,
             fastest_model |-> fastest.name,
             fastest_latency |-> fastest.evaluation.latency,
             most_readable_model |-> MostReadable(successful, 1, None, 0),
             total_models |-> total,
             successful_models |-> Len(successful)]
    ELSE [evaluations |-> evaluations,
          total_models |-> total,
          successful_models |-> 0,
          error |-> Lit("All models failed")]

compare_responses_successes_only(rs, env) ==
    LET successful == Successful(Evaluations(rs, env))
    IN compare_report(successful, successful, Len(rs))

compare_responses(rs, env) ==
    LET evaluations == Evaluations(rs, env)
    IN compare_report(evaluations, Successful(evaluations), Len(rs))

(***************************************************************************)
(* The evaluator called on its own: the input is a text or a mapping of    *)
(* named responses, each call meets its own textstat behaviour.  The       *)
(* evaluator keeps no state between calls (its methods are static and      *)
(* assign nothing outside their locals), so a behaviour is one call.       *)
(***************************************************************************)
EvalNames == {"a", "b", "c"}

ReplyContent == <<"O", "k", ".">>

Succeeds(latency) ==
    LLMResponse(Lit("m"), ReplyContent, latency, None, 0, None)

Fails(error) == Failed(Lit("m"), 0, error)

FailedResponses == {Fails(EmptyStr), Fails(Lit("boom"))}

CompareResponses ==
    {Succeeds(l) : l \in {996, 1004, 3000}} \cup FailedResponses

EvaluateResponses ==
    {Succeeds(l) : l \in {4, 996, 1000, 1004, 2996, 3000, 4996, 5000, 9996,
                          10000, 12004}} \cup FailedResponses

Mappings ==
    UNION {{m \in [1..n -> [name : EvalNames, response : CompareResponses]] :
               \A i, j \in 1..n : m[i].name = m[j].name => i = j} :
           n \in 0..MaxOutcomes}

(* textstat is reached for the successful responses only *)
Envs(rs) ==
    {env \in [1..Len(rs) -> TextstatReplies] :
        \A i \in 1..Len(rs) : ~success(rs[i].response) => env[i] = None}

InitEval ==
    /\ DispatcherUnused
    /\ GenUnused
    /\ AppUnused
    /\ report = None
    /\ \/ text \in Texts /\ outcomes = <<>>
       \/ text = <<>> /\ outcomes \in Mappings

Evaluate(response, ts) ==
    /\ report = None
    /\ success(response) \/ ts = None
    /\ report' = [op |-> "evaluate_response", env |-> <<ts>>,
                  input |-> response,
                  result |-> evaluate_response(response, ts)]
    /\ UNCHANGED <<providers, pc, qa_vars, wf_vars, args, ret, gen_vars,
                   app_vars, outcomes, text>>

Compare(env) ==
    /\ report = None
    /\ report' = [op |-> "compare_responses", env |-> env,
                  result |-> compare_responses(outcomes, env)]
    /\ UNCHANGED <<providers, pc, qa_vars, wf_vars, args, ret, gen_vars,
                   app_vars, outcomes, text>>

NextEval ==
    \/ \E ts \in TextstatReplies : Readability(ts)
    \/ \E response \in EvaluateResponses, ts \in TextstatReplies :
          Evaluate(response, ts)
    \/ \E env \in Envs(outcomes) : Compare(env)

SpecEval == InitEval /\ [][NextEval]_vars

(***************************************************************************)
(* Properties of query_all.                                                *)
(***************************************************************************)
QaReturned == pc = "idle" /\ ret.op = "query_all"

Entry(results, name) == results[IndexOf(results, name)].response

RaisedTasks == {i \in 1..Len(produced) : produced[i].tag = "raise"}
ReturnedTasks == {i \in 1..Len(produced) : produced[i].tag = "return"}

(* C1: query_all over N registered providers returns exactly N entries,    *)
(* one for each registered name and no other, whichever of the providers   *)
(* succeed, return a failed Outcome or raise.                              *)
C1_OneEntryPerName ==
    QaReturned =>
        /\ Len(ret.value) = Len(providers)
        /\ KeySet(ret.value) = KeySet(providers)
        /\ Cardinality(KeySet(ret.value)) = Len(providers)

C1_Witness ==
    /\ QaReturned
    /\ Len(providers) = 3
    /\ RaisedTasks # {}
    /\ \E i \in ReturnedTasks : success(produced[i].value)
    /\ \E i \in ReturnedTasks : ~success(produced[i].value)

(* C8: query_all is a barrier.  Every registered provider's generate is    *)
(* started; while the dispatch waits, the calls that have not finished are *)
(* still running whatever the others did; and it returns only when every   *)
(* call has returned an Outcome or raised.                                 *)
C8_Barrier ==
    /\ pc = "qa_gather" =>
          /\ Len(tasks) = Len(providers)
          /\ running = {i \in 1..Len(tasks) : produced[i] = Pending}
    /\ QaReturned =>
          /\ Len(produced) = Len(providers)
          /\ running = {}
          /\ \A i \in 1..Len(produced) : produced[i].tag \in {"return", "raise"}
          /\ \A i \in 1..Len(ret.value) : ret.value[i].response # Pending

C8_Witness ==
    /\ QaReturned
    /\ Len(providers) >= 2
    /\ produced[1].tag = "raise"
    /\ \E i \in ReturnedTasks : i > 1

(* C9: when a provider's generate raises inside query_all, the entry under *)
(* its registered name is a failed Outcome with that name as model         *)
(* identifier, empty content, latency 0 and an error starting with         *)
(* "Exception: "; the entries of the other providers are the Outcomes they *)
(* returned.                                                               *)
C9_ExceptionEntry ==
    QaReturned =>
        /\ \A i \in RaisedTasks :
              LET e == Entry(ret.value, provider_names[i])
              IN /\ e.model_name = Lit(provider_names[i])
                 /\ e.content = EmptyStr
                 /\ e.latency = 0
                 /\ e.error # None
                 /\ Head(e.error[1]) = "Exception: "
                 /\ ~success(e)
        /\ \A i \in ReturnedTasks :
              Entry(ret.value, provider_names[i]) = produced[i].value

C9_Witness ==
    /\ QaReturned
    /\ RaisedTasks # {}
    /\ \E i \in ReturnedTasks : success(produced[i].value)

(* C10: the slot, and then the entry, of each registered name holds what   *)
(* the provider bound to that name produced, in whatever order the         *)
(* concurrent calls finish.                                                *)
Attributed(i, slot) ==
    /\ slot.tag = produced[i].tag
    /\ slot.tag = "return" =>
          /\ slot.value = Some(produced[i].value)
          /\ produced[i].value.model_name = get_model_name(tasks[i])
    /\ slot.tag = "raise" => slot.exc = produced[i].exc

C10_AttributionByName ==
    /\ pc = "qa_gather" =>
          \A i \in 1..Len(tasks) : Attributed(i, responses[i])
    /\ QaReturned =>
          \A i \in 1..Len(tasks) :
              LET e == Entry(ret.value, provider_names[i])
              IN /\ produced[i].tag = "return" => e = produced[i].value
                 /\ produced[i].tag = "raise" =>
                       e.error = Some(<<"Exception: ", produced[i].exc>>)

C10_Witness ==
    /\ pc = "qa_gather"
    /\ Len(tasks) = 3
    /\ running = {1}
    /\ produced[3].tag = "return"
    /\ produced[2].tag = "raise"

(***************************************************************************)
(* Properties of query_best_for_use_case.                                  *)
(***************************************************************************)
WfEnded == pc = "idle" /\ ret.op = "query_best_for_use_case"

Succ(a) == a.tag = "return" /\ success(a.value[1])
FailedOutcome(a) == a.tag = "return" /\ ~success(a.value[1])

Preferred == Range(Preferences(use_case))

(* the providers invoked so far in the call, the one being awaited last *)
Invoked ==
    IF pc = "wf_await" THEN [k \in 1..Len(attempts) |-> attempts[k].name]
                            \o <<awaiting.name>>
    ELSE [k \in 1..Len(attempts) |-> attempts[k].name]

(* C3: a provider that is not in the use case's preference list is invoked *)
(* only after every registered provider of the preference list has been    *)
(* invoked in this call and has returned a failed Outcome.                 *)
C3_PreferredBeforeFallback ==
    \A k \in 1..Len(Invoked) :
        Invoked[k] \notin Preferred =>
            \A n \in Preferred \cap KeySet(providers) :
                \E j \in 1..(k - 1) :
                    /\ j <= Len(attempts)
                    /\ attempts[j].name = n
                    /\ FailedOutcome(attempts[j])

C3_Witness ==
    /\ Len(attempts) = 3
    /\ attempts[1].name \in Preferred
    /\ attempts[2].name \in Preferred
    /\ attempts[3].name \notin Preferred

(* C4: the first successful Outcome ends the call: it is the value         *)
(* returned, and no provider is invoked after it.                          *)
C4_ShortCircuit ==
    \A k \in 1..Len(attempts) :
        Succ(attempts[k]) =>
            /\ k = Len(attempts)
            /\ pc = "idle"
            /\ ret = Returned("query_best_for_use_case", attempts[k].value[1])

C4_Witness ==
    /\ WfEnded
    /\ Len(attempts) = 1
    /\ Succ(attempts[1])
    /\ Len(providers) = 3
    /\ Cardinality(Preferred \cap KeySet(providers)) >= 2

(* the order the claim gives: the registered names of the preference list  *)
(* in its order, then the other registered names in mapping order          *)
ExpectedOrder(d, preferences) ==
    LET registered(n) == n \in KeySet(d)
        other(n) == n \notin Range(preferences)
    IN SelectSeq(preferences, registered) \o SelectSeq(Keys(d), other)

(* C2: the providers invoked in one call are exactly the registered names  *)
(* of the preference list in its order followed by the other registered    *)
(* names in mapping order, cut after the first successful Outcome.         *)
C2_AttemptOrder ==
    WfEnded =>
        LET exp == ExpectedOrder(providers, Preferences(use_case))
            n == Len(attempts)
        IN /\ n <= Len(exp)
           /\ \A k \in 1..n : attempts[k].name = exp[k]
           /\ \A k \in 1..(n - 1) : ~Succ(attempts[k])
           /\ n < Len(exp) => Succ(attempts[n])

(* C5: when no provider returned a successful Outcome, the call returns    *)
(* the failed Outcome named "none", with empty content and an error.       *)
C5_NoneWhenAllFail ==
    (WfEnded /\ \A k \in 1..Len(attempts) : ~Succ(attempts[k])) =>
        /\ ret.tag = "return"
        /\ ret.value.model_name = Lit("none")
        /\ ret.value.content = EmptyStr
        /\ ret.value.error # None

(* C7: neither dispatch raises to its caller: a generate that raises       *)
(* counts as that provider's failed outcome, the waterfall goes on to the  *)
(* next provider, and the operation returns.                               *)
C7_DispatcherNeverRaises ==
    /\ pc = "idle" => ret.tag # "raise"
    /\ \A k \in 1..Len(attempts) :
          attempts[k].tag = "raise" =>
              \/ pc = "wf_await"
              \/ WfEnded /\ ret.tag = "return"
    /\ QaReturned =>
          \A i \in RaisedTasks : ~success(Entry(ret.value, provider_names[i]))

(***************************************************************************)
(* Properties of generate.                                                 *)
(***************************************************************************)
(* the faults of a call: no credential, the integration library missing    *)
(* or unable to build its client, no response, a status other than 200, a  *)
(* body that does not parse                                                *)
Fault(p, b) ==
    \/ p.kind # "ollama" /\ ~Truthy(p.api_key)
    \/ p.kind \in {"gemini", "groq"} /\ ~b.client /\ b.reply.lib # "ok"
    \/ b.reply.net # "response"
    \/ b.reply.status # 200
    \/ b.reply.body = "not_json"

(* C6: whatever the provider kind and the fault, generate returns a failed *)
(* Outcome; it never raises.                                               *)
C6_GenerateNeverRaises ==
    generated # None =>
        /\ generated[1].tag = "return"
        /\ Fault(subject[1], backend[1]) => ~success(generated[1].value)

Uncredentialed(p) == p.kind \in Remote /\ p.api_key \in {None, Some(EmptyStr)}

MissingKeyText(kind) ==
    CASE kind = "huggingface" -> Lit("HuggingFace API key not provided")
      [] kind = "gemini" -> Lit("Gemini API key not provided")
      [] kind = "groq" -> Lit("Groq API key not provided")
      [] kind = "openrouter" -> Lit("OpenRouter API key not provided")

(* C11: generate on a remote provider whose credential is absent or empty  *)
(* returns a failed Outcome with latency 0, empty content and the error    *)
(* naming the missing API key, makes no call to the backend and builds no  *)
(* client.                                                                 *)
C11_UncredentialedFailsFast ==
    generated # None /\ Uncredentialed(subject[1]) =>
        /\ generated[1].tag = "return"
        /\ ~success(generated[1].value)
        /\ generated[1].value.latency = 0
        /\ generated[1].value.content = EmptyStr
        /\ generated[1].value.error = Some(MissingKeyText(subject[1].kind))
        /\ backend[1].calls = <<>>
        /\ ~backend[1].client /\ ~subject[1].client

(* an empty-string credential met a backend whose client cannot be built   *)
C11_Witness ==
    /\ generated # None
    /\ subject[1].kind = "groq"
    /\ subject[1].api_key = Some(EmptyStr)
    /\ backend[1].reply.lib = "broken"
    /\ generated[1].tag = "return"
    /\ backend[1].calls = <<>>

(***************************************************************************)
(* Properties of the registry and of get_use_case_explanation.             *)
(***************************************************************************)
Occurrences(d, name) == Cardinality({i \in 1..Len(d) : d[i].name = name})

RegisterStep == pc = "idle" /\ args'.op = "register_provider"

(* C13: a register(n, p) step binds n to p, replacing any prior binding:   *)
(* afterwards get(n) is p, n is listed exactly once, every other name      *)
(* keeps its binding and its place, and the names are the names before     *)
(* plus n; a step of any other operation leaves the names as they are.     *)
C13_RegisterOverwrites ==
    [][/\ RegisterStep =>
            /\ get_provider(providers', args'.name) = args'.provider
            /\ Occurrences(providers', args'.name) = 1
            /\ \A m \in KeySet(providers) \ {args'.name} :
                  /\ get_provider(providers', m) = get_provider(providers, m)
                  /\ Occurrences(providers', m) = 1
            /\ KeySet(providers') = KeySet(providers) \cup {args'.name}
            /\ \A i \in 1..Len(providers) :
                  list_providers(providers')[i] = list_providers(providers)[i]
       /\ ~RegisterStep => list_providers(providers') = list_providers(providers)
      ]_vars

(* register(n, p2) has replaced a different provider p1 bound to n, with   *)
(* another name registered beside it                                       *)
C13_Witness ==
    /\ args.op = "register_provider"
    /\ args.before # None
    /\ args.before # args.provider
    /\ get_provider(providers, args.name) = args.provider
    /\ Len(providers) >= 2

ExplainStep == pc = "idle" /\ args'.op = "get_use_case_explanation"

(* C20: an explain(use_case) step returns the string that depends on the   *)
(* use case alone, whatever has been registered or dispatched before, and  *)
(* leaves the provider mapping as it was, with no provider invoked.        *)
C20_ExplainPure ==
    [][ExplainStep =>
          /\ ret'.tag = "return"
          /\ ret'.value = Some(get_use_case_explanation(<<>>, args'.name))
          /\ providers' = providers
          /\ pc' = "idle" /\ awaiting' = NoAwait /\ running' = {}
          /\ tasks' = <<>> /\ attempts' = <<>>
      ]_vars

(* explain has run on a dispatcher holding two providers, one of which has *)
(* built its client in an earlier dispatch                                 *)
C20_Witness ==
    /\ args.op = "get_use_case_explanation"
    /\ args.name = "healthcare"
    /\ ret = Returned("get_use_case_explanation",
                      Some(explanations.healthcare))
    /\ Len(providers) >= 2
    /\ \E i \in 1..Len(providers) : providers[i].provider.client

(***************************************************************************)
(* Properties of initialize_router.                                        *)
(***************************************************************************)
Initialized == args.op = "initialize_router"

(* C19: whatever credentials the environment holds, initialize_router      *)
(* returns, with each remote backend registered exactly when its           *)
(* credential is present and not empty, and ollama registered always.      *)
C19_RegisteredIffCredential ==
    Initialized =>
        /\ ret.tag = "return"
        /\ \A k \in Remote :
              k \in KeySet(providers)
                  <=> environ[k] # None /\ environ[k] # Some(EmptyStr)
        /\ "ollama" \in KeySet(providers)
        /\ KeySet(providers) \subseteq Remote \cup {"ollama"}
        /\ \A k \in KeySet(providers) : Occurrences(providers, k) = 1

(* one credential unset, one set to the empty string, the others present   *)
C19_Witness ==
    /\ Initialized
    /\ environ.huggingface = None
    /\ environ.gemini = Some(EmptyStr)
    /\ environ.groq # None /\ environ.groq # Some(EmptyStr)
    /\ environ.openrouter # None /\ environ.openrouter # Some(EmptyStr)
    /\ list_providers(providers) = <<"groq", "openrouter", "ollama">>

(***************************************************************************)
(* Properties of the evaluator.                                            *)
(***************************************************************************)
Compared == report # None /\ report.op = "compare_responses"
Evaluated == report # None /\ report.op = "evaluate_response"
Degraded ==
    report # None /\ report.op = "calculate_readability" /\ report.env[1] = None

NoError(i) == outcomes[i].response.error = None
Successes == {i \in 1..Len(outcomes) : NoError(i)}

(* C12: an Outcome is a success exactly when its error field is absent;    *)
(* an error that is the empty string is still an error.  Read off the      *)
(* success flag of every evaluation a call produces.                       *)
C12_SuccessIffNoError ==
    /\ Compared =>
          /\ Len(report.result.evaluations) = Len(outcomes)
          /\ \A i \in 1..Len(outcomes) :
                report.result.evaluations[i].evaluation.success <=> NoError(i)
    /\ Evaluated =>
          (report.result.success <=> report.input.error = None)

(* an Outcome with the empty string as error has been evaluated beside a   *)
(* successful one                                                          *)
C12_Witness ==
    /\ Compared
    /\ Len(outcomes) = 2
    /\ outcomes[1].response.error = Some(EmptyStr)
    /\ outcomes[2].response.error = None
    /\ ~report.result.evaluations[1].evaluation.success
    /\ report.result.evaluations[2].evaluation.success

(* C14: when some outcome succeeded, fastest_model names the successful    *)
(* outcome of minimum latency, the first in mapping order among equals; in *)
(* particular a success strictly faster than every other is the fastest,   *)
(* wherever it stands in the mapping.                                      *)
C14_FastestIsMinLatency ==
    Compared /\ Successes # {} =>
        \E i \in Successes :
            /\ report.result.fastest_model = outcomes[i].name
            /\ \A j \in Successes :
                  /\ outcomes[i].response.latency <= outcomes[j].response.latency
                  /\ outcomes[j].response.latency = outcomes[i].response.latency
                        => i <= j

(* C15: the report counts the input outcomes and the outcomes without      *)
(* error and holds one evaluation per input name, in order; with no        *)
(* success (the empty mapping included) it reports 0 successes and the     *)
(* error marker and has no fastest_model and no most_readable_model field. *)
C15_ReportCounts ==
    Compared =>
        LET r == report.result IN
        /\ r.total_models = Len(outcomes)
        /\ r.successful_models = Cardinality(Successes)
        /\ Len(r.evaluations) = Len(outcomes)
        /\ \A i \in 1..Len(outcomes) : r.evaluations[i].name = outcomes[i].name
        /\ Successes = {} =>
              /\ r.successful_models = 0
              /\ "error" \in DOMAIN r
              /\ r.error = Lit("All models failed")
              /\ "fastest_model" \notin DOMAIN r
              /\ "most_readable_model" \notin DOMAIN r

(* a mapping whose outcomes all failed has been compared *)
C15_Witness ==
    /\ Compared
    /\ Len(outcomes) = 2
    /\ Successes = {}
    /\ report.result.total_models = 2
    /\ report.result.successful_models = 0
    /\ "error" \in DOMAIN report.result

ReadabilityOf(i) == report.result.evaluations[i].evaluation.readability
Scored == {i \in Successes : "flesch_reading_ease" \in DOMAIN ReadabilityOf(i)}

(* C16: when some outcome succeeded, most_readable_model names the success *)
(* with the highest reading-ease score among the successes that carry one, *)
(* the first in mapping order among equals; successes with the degraded    *)
(* metrics do not take part, and the field is None exactly when no success *)
(* carries a score.                                                        *)
C16_MostReadable ==
    Compared /\ Successes # {} =>
        /\ Len(report.result.evaluations) = Len(outcomes)
        /\ report.result.most_readable_model = None <=> Scored = {}
        /\ Scored # {} =>
              \E i \in Scored :
                 /\ report.result.most_readable_model = Some(outcomes[i].name)
                 /\ \A j \in Scored :
                       /\ ReadabilityOf(j).flesch_reading_ease
                             <= ReadabilityOf(i).flesch_reading_ease
                       /\ ReadabilityOf(j).flesch_reading_ease
                             = ReadabilityOf(i).flesch_reading_ease => i <= j

(* two successes carrying the same score have been compared *)
C16_Witness ==
    /\ Compared
    /\ Len(outcomes) = 2
    /\ Scored = {1, 2}
    /\ ReadabilityOf(1).flesch_reading_ease = ReadabilityOf(2).flesch_reading_ease
    /\ report.result.most_readable_model = Some(outcomes[1].name)

Bucket(latency) ==
    IF latency < 1000 THEN "Very Fast"
    ELSE IF latency < 3000 THEN "Fast"
    ELSE IF latency < 5000 THEN "Moderate"
    ELSE IF latency < 10000 THEN "Slow"
    ELSE "Very Slow"

(* C17: evaluate gives for a failed Outcome the failure record alone       *)
(* (success false, model, error); for a successful one the latency rounded *)
(* to 2 decimals and the rating that is the bucket of the latency, which   *)
(* is also the bucket of the latency reported.                             *)
C17_RatingOfReportedLatency ==
    Evaluated =>
        LET r == report.result IN
        /\ report.input.error # None =>
              /\ DOMAIN r = {"success", "model", "error"}
              /\ ~r.success
              /\ r.model = report.input.model_name
              /\ r.error = report.input.error
        /\ report.input.error = None =>
              /\ r.latency = Round2(report.input.latency)
              /\ r.speed_rating = Bucket(report.input.latency)
              /\ r.speed_rating = Bucket(r.latency)

WordStarts(t) ==
    {i \in 1..Len(t) : t[i] \notin Whitespace
                       /\ (i = 1 \/ t[i - 1] \in Whitespace)}
Terminators(t) == {i \in 1..Len(t) : t[i] \in {".", "!", "?"}}

(* C18: without textstat, readability(text) gives the number of            *)
(* whitespace-separated words, the number of '.', '!' and '?' characters   *)
(* but at least 1 as sentence_count, the basic-metrics marker and neither  *)
(* flesch field; the divisor of avg_word_length is never 0; for            *)
(* "Short. Text." the counts are 2 and 2.                                  *)
C18_DegradedReadability ==
    Degraded =>
        LET r == report.result IN
        /\ r.word_count = Cardinality(WordStarts(text))
        /\ r.sentence_count = Max(1, Cardinality(Terminators(text)))
        /\ r.sentence_count >= 1
        /\ r.avg_word_length.den >= 1
        /\ r.interpretation = BasicOnly
        /\ "flesch_reading_ease" \notin DOMAIN r
        /\ "flesch_kincaid_grade" \notin DOMAIN r
        /\ text = ShortText => r.word_count = 2 /\ r.sentence_count = 2

(* "Short. Text." has been measured without textstat *)
C18_Witness ==
    /\ Degraded
    /\ text = ShortText
    /\ report.result.word_count = 2
    /\ report.result.sentence_count = 2

(* C21: every Outcome a provider's generate returns, successful or failed, *)
(* carries the provider's own get_model_name() ("ollama/<model>" for the   *)
(* local backend), which is neither empty nor the provider's registration  *)
(* name.                                                                   *)
C21_StampedWithModelName ==
    generated # None /\ generated[1].tag = "return" =>
        /\ generated[1].value.model_name = get_model_name(subject[1])
        /\ generated[1].value.model_name # EmptyStr
        /\ generated[1].value.model_name # Lit(subject[1].kind)
        /\ subject[1].kind = "ollama" =>
              generated[1].value.model_name = <<"ollama/", "llama3">>

(* the local backend refused the connection and generate returned the      *)
(* failed Outcome                                                          *)
C21_Witness ==
    /\ generated # None
    /\ generated[1].tag = "return"
    /\ subject[1].kind = "ollama"
    /\ backend[1].reply.net = "connect"
    /\ ~success(generated[1].value)
    /\ generated[1].value.model_name = <<"ollama/", "llama3">>

(***************************************************************************)
(* Properties of the Outcomes the system produces.                         *)
(***************************************************************************)
Exclusive(o) == o.error # None => o.content = EmptyStr

(* C22: an Outcome with an error has empty content, whether a provider's   *)
(* generate returned it, query_all built it from an exception, or the      *)
(* waterfall returned it as the "none" Outcome.                            *)
C22_ErrorMeansNoContent ==
    /\ \A i \in ReturnedTasks : Exclusive(produced[i].value)
    /\ \A k \in 1..Len(attempts) :
          attempts[k].tag = "return" => Exclusive(attempts[k].value[1])
    /\ QaReturned =>
          \A i \in 1..Len(ret.value) : Exclusive(ret.value[i].response)
    /\ WfEnded /\ ret.tag = "return" => Exclusive(ret.value)

(* query_all has turned a provider's exception into a failed Outcome *)
C22_Witness ==
    /\ QaReturned
    /\ RaisedTasks = {1}
    /\ Len(ret.value) = 1
    /\ ret.value[1].response.error # None
    /\ ret.value[1].response.content = EmptyStr

(***************************************************************************)
(* Properties of the options of generate.                                  *)
(***************************************************************************)
Requested == generated # None /\ backend[1].request # None

Carries(request, value) == \E f \in DOMAIN request : request[f] = value

(* C23: whatever the provider kind, a request made by generate carries the *)
(* max_tokens and the temperature passed to the call, and an option with   *)
(* another key changes nothing in the request.                             *)
C23_OptionsReachTheRequest ==
    Requested =>
        /\ \A k \in {"max_tokens", "temperature"} \cap DOMAIN backend[1].kwargs :
              Carries(backend[1].request[1], backend[1].kwargs[k])
        /\ backend[1].request[1] =
              request_options(subject[1],
                              [k \in DOMAIN backend[1].kwargs \ {"top_k"} |->
                                  backend[1].kwargs[k]])

(***************************************************************************)
(* Properties of a register_provider call that runs while a dispatch is    *)
(* suspended.                                                              *)
(***************************************************************************)
Interleaved == args.op = "register_provider"

NoProviderRaised == \A k \in 1..Len(attempts) : attempts[k].tag # "raise"

(* C24: a waterfall during which register_provider ran, of a new or an     *)
(* existing name, while a provider was awaited, and none of whose          *)
(* providers raised, ends by returning an Outcome.                         *)
C24_RegisterKeepsWaterfall ==
    (WfEnded /\ Interleaved /\ NoProviderRaised) => ret.tag = "return"

(***************************************************************************)
(* Properties of the waterfall as a whole.                                 *)
(***************************************************************************)
(* the same names bound to the same provider objects, whatever client the  *)
(* objects have built meanwhile                                            *)
SameObject(p, q) == [p EXCEPT !.client = FALSE] = [q EXCEPT !.client = FALSE]
SameMapping(d, e) ==
    /\ Keys(d) = Keys(e)
    /\ \A i \in 1..Len(d) : SameObject(d[i].provider, e[i].provider)

AttemptsOf(name) == {k \in 1..Len(attempts) : attempts[k].name = name}

WfEndedWell ==
    /\ Len(attempts) <= Len(providers)
    /\ \A k \in 1..Len(attempts) :
          /\ attempts[k].name \in KeySet(providers)
          /\ Cardinality(AttemptsOf(attempts[k].name)) = 1
    /\ \/ ret.tag = "return" /\ success(ret.value)
       \/ /\ ret = Returned("query_best_for_use_case", NoneResponse)
          /\ \A n \in KeySet(providers) :
                /\ Cardinality(AttemptsOf(n)) = 1
                /\ \A k \in AttemptsOf(n) : FailedOutcome(attempts[k])

WfCallStep == pc = "wf_await" \/ pc' = "wf_await" \/ WfEnded'

(* C26: with registrations only between calls, a waterfall call invokes    *)
(* each registered provider at most once, so at most N of them, leaves the *)
(* mapping as it was, and ends either with a successful Outcome or, every  *)
(* registered provider invoked once and having returned a failure, with    *)
(* the "none" Outcome.                                                     *)
C26_WaterfallTerminates ==
    [][WfCallStep =>
          /\ SameMapping(providers, providers')
          /\ WfEnded' => WfEndedWell'
      ]_vars

(***************************************************************************)
(* Properties of query_all with register_provider interleaved.             *)
(***************************************************************************)
OutcomesOf(p) == {generate_async(p, reply) : reply \in DispatchReplies}

QaBegins == pc = "idle" /\ pc' = "qa_gather"

(* C25: query_all takes the names and the provider objects of the mapping  *)
(* when it starts and keeps them until it returns, whatever                *)
(* register_provider does to the mapping meanwhile: each task's outcome is *)
(* one its own object produces, and the result has exactly the names taken *)
(* at the start, each with the outcome of its task.                        *)
C25_QueryAllOnSnapshot ==
    [][/\ QaBegins =>
             /\ provider_names' = Keys(providers)
             /\ tasks' = [i \in 1..Len(providers) |-> providers[i].provider]
       /\ pc = "qa_gather" =>
             /\ provider_names' = provider_names
             /\ tasks' = tasks
             /\ \A i \in running \ running' :
                   produced'[i] \in OutcomesOf(tasks[i])
             /\ QaReturned' =>
                   /\ Keys(ret'.value) = provider_names
                   /\ \A i \in 1..Len(provider_names) :
                         ret'.value[i].response =
                             ResultEntry(provider_names[i], responses[i])
      ]_vars

(* query_all has returned after register_provider replaced, while its      *)
(* tasks were outstanding, the keyless provider of one of its names by one *)
(* with a key: the result holds the keyless provider's failure.            *)
C25_Witness ==
    /\ QaReturned
    /\ Interleaved
    /\ \E i \in 1..Len(provider_names) :
          /\ provider_names[i] = args.name
          /\ tasks[i].api_key = None
          /\ args.provider[1].api_key # None
          /\ Get(providers, args.name) = args.provider
          /\ ret.value[i].response.error # None

====
